---------------------------- MODULE Spec2Model ----------------------------
(***************************************************************************)
(* A model of mine311: the Minesweeper game engine (minesweeper.py) and    *)
(* the solver strategies that play it (solvers.py).                        *)
(*                                                                         *)
(* A cell is a pair <<i, j>> of 0-based row and column.  A board is a      *)
(* function from the cells of the game to integers, encoded as in the      *)
(* source: 0..8 a count, -1 a mine, -2 unknown, -3 a flag.                 *)
(***************************************************************************)
EXTENDS Integers, Sequences, FiniteSets, TLC

\* Bounds of the model: boards of at most MaxCells cells, at most MaxMines
\* mines requested at construction.
MaxCells == 5
MaxMines == 2
\* At most MaxOps operations are applied to one game.
MaxOps == 3
\* Games played by a solver: boards of at most SolverMaxCells cells with at
\* most SolverMaxMines mines.
SolverMaxCells == 8
SolverMaxMines == 2

\* Constraint stores tried for trivialflag and trivialclick: a board of one
\* row of StoreCells cells, at most StoreMaxCons constraints, counts from 0
\* to StoreMaxCount
StoreCells == 6
StoreMaxCons == 3
StoreMaxCount == 1

\* Stores tried for pruneunknownneighs and constraintsreduction: those of a
\* game on a board of ReduceRows by ReduceCols cells, with at most
\* ReduceMaxNew cells revealed since the store was built
ReduceRows == 2
ReduceCols == 4
ReduceMaxNew == 2

\* MAX_COMBS, the enumeration budget
MAX_COMBS == 5000

VARIABLES
    \* MineSweeperGame
    height, width,      \* self.height, self.width
    mine_count,         \* the constructor's mine_count argument
    mines,              \* self.mines
    flags,              \* self.flags
    revealed,           \* self.revealed
    firstclick,         \* self.firstclick
    failed,             \* self.failed
    board,              \* self.board (hidden)
    vboard,             \* self.vboard (visible)
    error,              \* the exception that ended the program, or "none"
    last,               \* history: the last operation applied to the game
    nops,               \* history: the number of operations applied so far
    \* the driver loop and the Solver it runs
    solver,             \* the Solver class in use, or "none"
    pc,                 \* "solve": about to call solver.click; "apply":
                        \* about to apply the action it returned
    action,             \* the (click, cell) pair solver.click returned
    s_firstclick,       \* Solver.firstclick
    s_random,           \* Solver.random
    s_revealed,         \* Solver.revealed
    to_click,           \* Solver.to_click
    to_flag,            \* Solver.to_flag
    constraints,        \* CSPSolver.constraints
    deletedconstraints, \* CSPSolver.deletedconstraints
    oldfreecells,       \* CSPSolver.oldfreecells
    newfreecells,       \* CSPSolver.newfreecells
    boards,             \* EnumerationSolver.boards
    ret                 \* history: how the last solver.click call returned

gameVars == <<height, width, mine_count, mines, flags, revealed, firstclick,
              failed, board, vboard, error, last, nops>>

solverVars == <<solver, pc, action, s_firstclick, s_random, s_revealed,
                to_click, to_flag, constraints, deletedconstraints,
                oldfreecells, newfreecells, boards, ret>>

vars == <<gameVars, solverVars>>

-----------------------------------------------------------------------------
(* Cells and neighbourhoods *)

CellsOf(h, w) == (0 .. h - 1) \X (0 .. w - 1)

Cells == CellsOf(height, width)

\* The (dx, dy) loops of get_neighbors_box, and (with the centre) the
\* (k, l) loops of nearby_mines and reveal: row-major over the 3x3 block.
Box == << <<-1, -1>>, <<-1, 0>>, <<-1, 1>>,
          << 0, -1>>, << 0, 0>>, << 0, 1>>,
          << 1, -1>>, << 1, 0>>, << 1, 1>> >>

InBounds(c, h, w) == 0 <= c[1] /\ c[1] < h /\ 0 <= c[2] /\ c[2] < w

\* get_neighbors_box as a set
NeighborSet(c, h, w) ==
    {n \in CellsOf(h, w) :
        /\ n # c
        /\ n[1] - c[1] \in {-1, 0, 1}
        /\ n[2] - c[2] \in {-1, 0, 1}}

-----------------------------------------------------------------------------
(* MineSweeperGame: pure parts *)

\* nearby_mines with the column loop of line 142 ending one column early
MutNearbyMinesNarrow(b, cell, h, w) ==
    Cardinality({n \in NeighborSet(cell, h, w) :
                    b[n] = -1 /\ n[2] <= cell[2]})

\* nearby_mines: the mines of board b within one row and column of cell
nearby_mines(b, cell, h, w) ==
    Cardinality({n \in NeighborSet(cell, h, w) : b[n] = -1})

\* populate_board: every non-mine entry becomes its nearby_mines count
populate_board(b, h, w) ==
    [c \in CellsOf(h, w) |->
        IF b[c] # -1 THEN nearby_mines(b, c, h, w) ELSE b[c]]

\* __init__ with line 85 (self.populate_board) left out
MutNewBoardNoCounts(h, w, ms) ==
    [c \in CellsOf(h, w) |-> IF c \in ms THEN -1 ELSE 0]

\* __init__, lines 68-85: an empty field, the chosen mines, the counts
NewBoard(h, w, ms) ==
    populate_board([c \in CellsOf(h, w) |-> IF c \in ms THEN -1 ELSE 0], h, w)

\* shift_mine, lines 191-198: the first non-mine cell from the top left
RECURSIVE FirstNonMine(_, _, _, _)
FirstNonMine(b, swapi, swapj, w) ==
    IF b[<<swapi, swapj>>] = -1
    THEN IF swapj + 1 = w
         THEN FirstNonMine(b, swapi + 1, 0, w)
         ELSE FirstNonMine(b, swapi, swapj + 1, w)
    ELSE <<swapi, swapj>>

\* shift_mine with line 208 (self.mines.remove) left out
MutShiftMineKeepsOld(b, ms, cell, h, w) ==
    LET swap == FirstNonMine(b, 0, 0, w)
        b1   == [[b EXCEPT ![swap] = -1] EXCEPT ![cell] = 0]
    IN  [board |-> populate_board(b1, h, w),
         mines |-> ms \cup {swap}]

\* shift_mine with line 205 (self.populate_board) left out
MutShiftMineNoPopulate(b, ms, cell, h, w) ==
    LET swap == FirstNonMine(b, 0, 0, w)
        b1   == [[b EXCEPT ![swap] = -1] EXCEPT ![cell] = 0]
    IN  [board |-> b1,
         mines |-> (ms \ {cell}) \cup {swap}]

\* shift_mine: the board and the mine set after moving the mine of cell
shift_mine(b, ms, cell, h, w) ==
    LET swap == FirstNonMine(b, 0, 0, w)
        b1   == [[b EXCEPT ![swap] = -1] EXCEPT ![cell] = 0]
    IN  [board |-> populate_board(b1, h, w),
         mines |-> (ms \ {cell}) \cup {swap}]

\* reveal without the cascade of lines 231-242
MutRevealNoCascade(b, st, cell, h, w) ==
    LET st1 == [st EXCEPT !.revealed = @ \cup {cell}]
    IN  IF b[cell] = -1
        THEN [st1 EXCEPT !.error = "RevealedMine"]
        ELSE [st1 EXCEPT !.vboard[cell] = b[cell]]

\* reveal: st = [revealed, vboard, error]; the flood fill of the source,
\* neighbours visited in the order of its (k, l) loops
RECURSIVE reveal(_, _, _, _, _), RevealLoop(_, _, _, _, _, _)
\* reveal with line 245 left out: a positive count is not shown
MutRevealNoShow(b, st, cell, h, w) ==
    LET st1 == [st EXCEPT !.revealed = @ \cup {cell}]
    IN  IF b[cell] = -1
        THEN [st1 EXCEPT !.error = "RevealedMine"]
        ELSE IF b[cell] = 0
        THEN RevealLoop(b, [st1 EXCEPT !.vboard[cell] = 0], cell, 1, h, w)
        ELSE st1

reveal(b, st, cell, h, w) ==
    LET st1 == [st EXCEPT !.revealed = @ \cup {cell}]
    IN  IF b[cell] = -1
        THEN [st1 EXCEPT !.error = "RevealedMine"]
        ELSE IF b[cell] = 0
        THEN RevealLoop(b, [st1 EXCEPT !.vboard[cell] = 0], cell, 1, h, w)
        ELSE [st1 EXCEPT !.vboard[cell] = b[cell]]

\* Lines 235-242 from the n-th (k, l) on: the loop passes over the revealed
\* and the out-of-bounds cells and reveals the first one that is neither
Neighbor(cell, k) == <<cell[1] + Box[k][1], cell[2] + Box[k][2]>>

RevealLoop(b, st, cell, n, h, w) ==
    LET todo == {k \in n .. Len(Box) :
                    /\ Neighbor(cell, k) \notin st.revealed
                    /\ InBounds(Neighbor(cell, k), h, w)}
    IN  IF st.error # "none" \/ todo = {}
        THEN st
        ELSE LET k == CHOOSE i \in todo : \A j \in todo : i <= j
             IN  RevealLoop(b, reveal(b, st, Neighbor(cell, k), h, w),
                            cell, k + 1, h, w)

\* outcome with line 270 testing that every mine is flagged, not equality
MutOutcomeSuperset(f, fl, ms) ==
    IF f THEN "Lost" ELSE IF ms \subseteq fl THEN "Won" ELSE "InProgress"

\* outcome: True (Won), False (Lost) or None (InProgress)
Outcome(f, fl, ms) ==
    IF f THEN "Lost" ELSE IF fl = ms THEN "Won" ELSE "InProgress"

outcome == Outcome(failed, flags, mines)

-----------------------------------------------------------------------------
(* MineSweeperGame: construction and operations *)

\* The configurations tried: any board of at most MaxCells cells and any
\* mine count the constructor accepts, up to MaxMines.
ConfigsUpTo(maxCells, maxMines) ==
    {cfg \in (1 .. maxCells) \X (1 .. maxCells) \X (0 .. maxMines) :
        cfg[1] * cfg[2] <= maxCells /\ cfg[3] < cfg[1] * cfg[2]}

\* Lines 54-93 for one result of the random placement of lines 76-82
GameInitWith(cfg, ms) ==
    /\ height = cfg[1]
    /\ width = cfg[2]
    /\ mine_count = cfg[3]
    /\ mines = ms
    /\ flags = {}
    /\ revealed = {}
    /\ firstclick = TRUE
    /\ failed = FALSE
    /\ board = NewBoard(cfg[1], cfg[2], ms)
    /\ vboard = [c \in CellsOf(cfg[1], cfg[2]) |-> -2]
    /\ error = "none"
    /\ last = [op |-> "new", cell |-> <<0, 0>>,
               first |-> FALSE, mine |-> FALSE]
    /\ nops = 0

\* __init__: the state after construction, for any outcome of the random
\* placement (lines 76-82 place mine_count distinct mines)
GameInit(configs) ==
    \E cfg \in configs :
        \E ms \in SUBSET CellsOf(cfg[1], cfg[2]) :
            Cardinality(ms) = cfg[3] /\ GameInitWith(cfg, ms)

\* click without the firstclick test of line 170: any click on a mine
\* relocates it
MutAfterFirstClickAlways(cell) ==
    IF board[cell] = -1
    THEN shift_mine(board, mines, cell, height, width)
    ELSE [board |-> board, mines |-> mines]

\* click without the relocation of lines 173-176
MutAfterFirstClickNoShift(cell) == [board |-> board, mines |-> mines]

\* click, lines 170-176: the board and mines the click decides on
AfterFirstClick(cell) ==
    IF firstclick /\ board[cell] = -1
    THEN shift_mine(board, mines, cell, height, width)
    ELSE [board |-> board, mines |-> mines]

\* click with line 178 written as an assignment of the test's result
MutClickFailedAssign(isMine, f) == isMine

\* click with line 178 left out
MutClickFailedNever(isMine, f) == f

\* click, lines 177-178: the failed flag after the mine test
ClickFailed(isMine, f) == IF isMine THEN TRUE ELSE f

\* click
GameClick(cell) ==
    LET g  == AfterFirstClick(cell)
        st == IF g.board[cell] = -1
              THEN [revealed |-> revealed, vboard |-> vboard, error |-> error]
              ELSE reveal(g.board,
                          [revealed |-> revealed, vboard |-> vboard,
                           error |-> error],
                          cell, height, width)
    IN  /\ error = "none"
        /\ nops' = nops + 1
        /\ firstclick' = FALSE
        /\ board' = g.board
        /\ mines' = g.mines
        /\ failed' = ClickFailed(g.board[cell] = -1, failed)
        /\ revealed' = st.revealed
        /\ vboard' = st.vboard
        /\ error' = st.error
        /\ last' = [op |-> "click", cell |-> cell,
                    first |-> firstclick, mine |-> (board[cell] = -1)]
        /\ UNCHANGED <<height, width, mine_count, flags>>

\* flag with line 256 counting the new flag and testing >=
MutFlagFailedOffByOne(fl, ms, f) ==
    IF Cardinality(fl) + 1 >= Cardinality(ms) THEN TRUE ELSE f

\* flag, line 256: the failed flag after the over-flagging test
FlagFailed(fl, ms, f) ==
    IF Cardinality(fl) > Cardinality(ms) THEN TRUE ELSE f

\* flag
GameFlag(cell) ==
    /\ error = "none"
    /\ nops' = nops + 1
    /\ failed' = FlagFailed(flags, mines, failed)
    /\ vboard' = [vboard EXCEPT ![cell] = -3]
    /\ flags' = flags \cup {cell}
    /\ last' = [op |-> "flag", cell |-> cell,
                first |-> firstclick, mine |-> (board[cell] = -1)]
    /\ UNCHANGED <<height, width, mine_count, mines, revealed, firstclick,
                   board, error>>

-----------------------------------------------------------------------------
(* Solver: reading the visible board *)

\* The row-major order of the (i, j) loops of get_cells and addconstraints
CellSeq(h, w) == [n \in 1 .. h * w |-> <<(n - 1) \div w, (n - 1) % w>>]

\* get_neighbors_box: the in-bounds neighbours of c, in (dx, dy) order
get_neighbors_box(c, h, w) ==
    LET around == [n \in 1 .. Len(Box) |->
                      <<c[1] + Box[n][1], c[2] + Box[n][2]>>]
    IN  SelectSeq(around, LAMBDA x : x # c /\ InBounds(x, h, w))

\* The test of get_cells and get_neighbors: a status > 0 asks for any
\* number cell
HasStatus(v, status) == IF status > 0 THEN v > 0 ELSE v = status

\* get_cells, as a set
get_cells(vb, status) == {c \in DOMAIN vb : HasStatus(vb[c], status)}

\* get_neighbors
get_neighbors(vb, cell, status, h, w) ==
    SelectSeq(get_neighbors_box(cell, h, w),
              LAMBDA x : HasStatus(vb[x], status))

Range(seq) == {seq[i] : i \in 1 .. Len(seq)}

\* The first click on the corner (0, 0) instead of the centre
MutCentreCorner(h, w) == <<0, 0>>

\* Board centre, Cell(self.height // 2, self.width // 2)
Centre(h, w) == <<h \div 2, w \div 2>>

-----------------------------------------------------------------------------
(* Solver: the action queues to_click and to_flag *)

(***************************************************************************)
(* A queue is a sequence of batches.  A batch is the set of cells one loop *)
(* over a Python set appended, whose order in the list is the set's        *)
(* iteration order: list.pop() may return any cell of the last batch.      *)
(* Cells appended from a list form one-cell batches, in the list's order.  *)
(***************************************************************************)
Singles(seq) == [i \in 1 .. Len(seq) |-> {seq[i]}]

QueueCells(q) == UNION Range(q)

\* What list.pop() may return
Poppable(q) == q[Len(q)]

\* The queue after list.pop() returned c
PopFrom(q, c) ==
    IF q[Len(q)] = {c}
    THEN SubSeq(q, 1, Len(q) - 1)
    ELSE [q EXCEPT ![Len(q)] = @ \ {c}]

\* revise_to_click: only the cells still unknown stay queued
revise_to_click(tc, vb) ==
    LET kept == [i \in 1 .. Len(tc) |-> {c \in tc[i] : vb[c] = -2}]
    IN  SelectSeq(kept, LAMBDA batch : batch # {})

-----------------------------------------------------------------------------
(* DeductionSolver.deduce *)

\* deduce with line 393 not counting the flagged neighbours
RECURSIVE MutDeduceFromNoFlagCount(_, _, _, _, _, _)
MutDeduceFromNoFlagCount(n, tc, tf, vb, h, w) ==
    IF n > h * w
    THEN [tc |-> tc, tf |-> tf]
    ELSE LET cell     == CellSeq(h, w)[n]
             flagged  == get_neighbors(vb, cell, -3, h, w)
             unknowns == get_neighbors(vb, cell, -2, h, w)
         IN  IF ~(vb[cell] > 0)
             THEN MutDeduceFromNoFlagCount(n + 1, tc, tf, vb, h, w)
             ELSE IF Len(flagged) = vb[cell]
             THEN MutDeduceFromNoFlagCount(n + 1, tc \o Singles(unknowns),
                                           tf, vb, h, w)
             ELSE IF Len(unknowns) = vb[cell]
             THEN MutDeduceFromNoFlagCount(n + 1, tc,
                                           tf \o Singles(unknowns), vb, h, w)
             ELSE MutDeduceFromNoFlagCount(n + 1, tc, tf, vb, h, w)

\* deduce, lines 388-394: the loop over the cells, from the n-th on
RECURSIVE DeduceFrom(_, _, _, _, _, _)
DeduceFrom(n, tc, tf, vb, h, w) ==
    IF n > h * w
    THEN [tc |-> tc, tf |-> tf]
    ELSE LET cell     == CellSeq(h, w)[n]
             flagged  == get_neighbors(vb, cell, -3, h, w)
             unknowns == get_neighbors(vb, cell, -2, h, w)
         IN  IF ~(vb[cell] > 0)
             THEN DeduceFrom(n + 1, tc, tf, vb, h, w)
             ELSE IF Len(flagged) = vb[cell]
             THEN DeduceFrom(n + 1, tc \o Singles(unknowns), tf, vb, h, w)
             ELSE IF Len(flagged) + Len(unknowns) = vb[cell]
             THEN DeduceFrom(n + 1, tc, tf \o Singles(unknowns), vb, h, w)
             ELSE DeduceFrom(n + 1, tc, tf, vb, h, w)

\* deduce: the two queues after one pass over the number cells
deduce(tc, tf, vb, h, w) == DeduceFrom(1, tc, tf, vb, h, w)

-----------------------------------------------------------------------------
(* CSPSolver: the constraint store *)

(***************************************************************************)
(* self.constraints is a dict in insertion order: a sequence of records    *)
(* [key, unk, cnt] for constraints[key] = [unk, cnt].  The store the       *)
(* trivialflag / trivialclick / constraintsreduction methods work on is    *)
(* st = [cons, del, tc, tf, qr, nc]: constraints, deletedconstraints,       *)
(* to_click and to_flag, and as history the cells constraintsreduction     *)
(* queued (qr) and the number of calls of constraintsreduction made (nc).  *)
(***************************************************************************)
HasKey(cons, k) == \E i \in 1 .. Len(cons) : cons[i].key = k

Lookup(cons, k) == cons[CHOOSE i \in 1 .. Len(cons) : cons[i].key = k]

Keys(cons) == [i \in 1 .. Len(cons) |-> cons[i].key]

\* self.constraints.pop(k)
PopKey(cons, k) == SelectSeq(cons, LAMBDA c : c.key # k)

\* update_revealed
update_revealed(rev, vb) == rev \cup get_cells(vb, 0) \cup get_cells(vb, 1)

\* addconstraints without the test of line 622 for a retired source
RECURSIVE MutAddConstraintsFromForgetsRetired(_, _, _, _, _, _)
MutAddConstraintsFromForgetsRetired(n, cons, del, vb, h, w) ==
    IF n > h * w
    THEN cons
    ELSE LET cell == CellSeq(h, w)[n]
         IN  IF vb[cell] > 0 /\ ~HasKey(cons, cell)
             THEN MutAddConstraintsFromForgetsRetired(n + 1,
                      Append(cons,
                          [key |-> cell,
                           unk |-> Range(get_neighbors(vb, cell, -2, h, w)),
                           cnt |-> vb[cell]
                                   - Len(get_neighbors(vb, cell, -3, h, w))]),
                      del, vb, h, w)
             ELSE MutAddConstraintsFromForgetsRetired(n + 1, cons, del, vb,
                                                      h, w)

\* addconstraints
RECURSIVE AddConstraintsFrom(_, _, _, _, _, _)
AddConstraintsFrom(n, cons, del, vb, h, w) ==
    IF n > h * w
    THEN cons
    ELSE LET cell == CellSeq(h, w)[n]
         IN  IF vb[cell] > 0 /\ ~HasKey(cons, cell) /\ cell \notin Range(del)
             THEN AddConstraintsFrom(n + 1,
                      Append(cons,
                          [key |-> cell,
                           unk |-> Range(get_neighbors(vb, cell, -2, h, w)),
                           cnt |-> vb[cell]
                                   - Len(get_neighbors(vb, cell, -3, h, w))]),
                      del, vb, h, w)
             ELSE AddConstraintsFrom(n + 1, cons, del, vb, h, w)

addconstraints(cons, del, vb, h, w) == AddConstraintsFrom(1, cons, del, vb, h, w)

\* pruneunknownneighs counting each removed cell as an explained mine
MutPruneDecrements(cons, new) ==
    [i \in 1 .. Len(cons) |->
        [cons[i] EXCEPT !.unk = @ \ new,
                        !.cnt = @ - Cardinality(cons[i].unk \cap new)]]

\* pruneunknownneighs with the loop of line 634 ending before the last
\* constraint
MutPruneSkipsLast(cons, new) ==
    [i \in 1 .. Len(cons) |->
        IF i < Len(cons) THEN [cons[i] EXCEPT !.unk = @ \ new] ELSE cons[i]]

\* pruneunknownneighs
pruneunknownneighs(cons, new) ==
    [i \in 1 .. Len(cons) |-> [cons[i] EXCEPT !.unk = @ \ new]]

\* trivialflag with line 661 (the decrement of the mine count) left out
MutExplainMineNoDecrement(cons, mine, h, w) ==
    [i \in 1 .. Len(cons) |->
        IF /\ cons[i].key \in Range(get_neighbors_box(mine, h, w))
           /\ Cardinality(cons[i].unk) # 0
           /\ mine \in cons[i].unk
        THEN [cons[i] EXCEPT !.unk = @ \ {mine}]
        ELSE cons[i]]

\* trivialflag, lines 655-661: one queued mine explained to its neighbours
ExplainMine(cons, mine, h, w) ==
    [i \in 1 .. Len(cons) |->
        IF /\ cons[i].key \in Range(get_neighbors_box(mine, h, w))
           /\ Cardinality(cons[i].unk) # 0
           /\ mine \in cons[i].unk
        THEN [cons[i] EXCEPT !.unk = @ \ {mine}, !.cnt = @ - 1]
        ELSE cons[i]]

RECURSIVE ExplainMines(_, _, _, _)
ExplainMines(cons, ms, h, w) ==
    IF ms = {}
    THEN cons
    ELSE LET mine == CHOOSE x \in ms : TRUE
         IN  ExplainMines(ExplainMine(cons, mine, h, w), ms \ {mine}, h, w)

\* trivialclick with lines 685-690 left out: a queued free cell stays in
\* the unknown sets that list it
MutRemoveFreeKeeps(cons, free, h, w) == cons

\* trivialclick, lines 685-690 (and constraintsreduction, 712-717): one
\* queued free cell taken out of its neighbours' unknown sets
RemoveFree(cons, free, h, w) ==
    [i \in 1 .. Len(cons) |->
        IF /\ cons[i].key \in Range(get_neighbors_box(free, h, w))
           /\ free \in cons[i].unk
        THEN [cons[i] EXCEPT !.unk = @ \ {free}]
        ELSE cons[i]]

RECURSIVE RemoveFrees(_, _, _, _)
RemoveFrees(cons, frees, h, w) ==
    IF frees = {}
    THEN cons
    ELSE LET free == CHOOSE x \in frees : TRUE
         IN  RemoveFrees(RemoveFree(cons, free, h, w), frees \ {free}, h, w)

RECURSIVE trivialflag(_, _, _), trivialclick(_, _, _)
RECURSIVE TrivialFlagPass(_, _, _, _, _), TrivialClickPass(_, _, _, _, _)

\* trivialflag, lines 644-661: the loop over the copied keys
TrivialFlagPass(st, keys, n, h, w) ==
    IF n > Len(keys)
    THEN st
    ELSE LET c == Lookup(st.cons, keys[n])
         IN  IF Cardinality(c.unk) = c.cnt
             THEN IF Cardinality(c.unk) = 0 /\ c.cnt = 0
                  THEN TrivialFlagPass(
                           [st EXCEPT !.cons = PopKey(@, c.key),
                                      !.del = Append(@, c.key)],
                           keys, n + 1, h, w)
                  ELSE TrivialFlagPass(
                           [st EXCEPT
                               !.del = Append(@, c.key),
                               !.cons = ExplainMines(PopKey(@, c.key),
                                                     c.unk, h, w),
                               !.tf = Append(@, c.unk)],
                           keys, n + 1, h, w)
             ELSE TrivialFlagPass(st, keys, n + 1, h, w)

\* trivialclick, lines 674-690: the loop over the copied keys
TrivialClickPass(st, keys, n, h, w) ==
    IF n > Len(keys)
    THEN st
    ELSE LET c == Lookup(st.cons, keys[n])
         IN  IF c.cnt = 0
             THEN IF Cardinality(c.unk) = 0 /\ c.cnt = 0
                  THEN TrivialClickPass(
                           [st EXCEPT !.cons = PopKey(@, c.key),
                                      !.del = Append(@, c.key)],
                           keys, n + 1, h, w)
                  ELSE TrivialClickPass(
                           [st EXCEPT
                               !.del = Append(@, c.key),
                               !.cons = RemoveFrees(PopKey(@, c.key),
                                                    c.unk, h, w),
                               !.tc = Append(@, c.unk)],
                           keys, n + 1, h, w)
             ELSE TrivialClickPass(st, keys, n + 1, h, w)

\* Lines 662-669 and 691-698: the first constraint, in dict order, that is
\* trivially resolvable decides which method runs again
TrivialRescan(st, h, w) ==
    LET hits == {i \in 1 .. Len(st.cons) :
                    \/ st.cons[i].cnt = 0
                    \/ Cardinality(st.cons[i].unk) = st.cons[i].cnt}
    IN  IF hits = {}
        THEN st
        ELSE LET first == CHOOSE i \in hits : \A j \in hits : i <= j
             IN  IF st.cons[first].cnt = 0
                 THEN trivialclick(st, h, w)
                 ELSE trivialflag(st, h, w)

trivialflag(st, h, w) ==
    TrivialRescan(TrivialFlagPass(st, Keys(st.cons), 1, h, w), h, w)

trivialclick(st, h, w) ==
    TrivialRescan(TrivialClickPass(st, Keys(st.cons), 1, h, w), h, w)

\* constraintsreduction, lines 708-717 and 719-728: the cells of frees are
\* queued for clicking and leave every unknown set
QueueFrees(st, frees, h, w) ==
    [st EXCEPT !.tc = Append(@, frees),
               !.cons = RemoveFrees(@, frees, h, w),
               !.qr = @ \cup frees]

\* constraintsreduction, lines 705-728: the pair (c1, c2) of the copy
ReducePair(st, c1, c2, h, w) ==
    IF c1 # c2 /\ HasKey(st.cons, c1) /\ HasKey(st.cons, c2)
    THEN LET a == Lookup(st.cons, c1)
             b == Lookup(st.cons, c2)
         IN  IF a.cnt = b.cnt /\ a.unk # b.unk
             THEN IF a.unk \subseteq b.unk
                  THEN QueueFrees(st, b.unk \ a.unk, h, w)
                  ELSE IF b.unk \subseteq a.unk
                  THEN QueueFrees(st, a.unk \ b.unk, h, w)
                  ELSE st
             ELSE st
    ELSE st

\* constraintsreduction, lines 733-735: the test of the second pair of loops
Reducible(cons, c1, c2) ==
    /\ c1 # c2 /\ HasKey(cons, c1) /\ HasKey(cons, c2)
    /\ LET a == Lookup(cons, c1)
           b == Lookup(cons, c2)
       IN  /\ a.cnt = b.cnt /\ a.unk # b.unk
           /\ (a.unk \subseteq b.unk \/ b.unk \subseteq a.unk)

RECURSIVE constraintsreduction(_, _, _)
RECURSIVE ReducePass(_, _, _, _, _), ReduceRescan(_, _, _, _, _)

\* Lines 703-728 from the n-th pair (c1, c2) of the copied keys on: the
\* loops pass over the pairs that do not pass the tests of lines 705-707
\* and 718, and reduce the first pair that does
ReducePass(st, keys, n, h, w) ==
    LET C1(m) == keys[((m - 1) \div Len(keys)) + 1]
        C2(m) == keys[((m - 1) % Len(keys)) + 1]
        todo  == {m \in n .. Len(keys) * Len(keys) :
                     Reducible(st.cons, C1(m), C2(m))}
    IN  IF todo = {}
        THEN st
        ELSE LET m == CHOOSE i \in todo : \A j \in todo : i <= j
             IN  ReducePass(ReducePair(st, C1(m), C2(m), h, w),
                            keys, m + 1, h, w)

\* constraintsreduction without the second pair of loops, lines 730-739
MutReduceRescanNever(st, keys, n, h, w) == st

\* Lines 730-739: for each c1 of the second copy, the first c2 that still
\* makes a reducible pair starts the method again, and break leaves the
\* inner loop only
ReduceRescan(st, keys, n, h, w) ==
    IF n > Len(keys)
    THEN st
    ELSE IF \E m \in 1 .. Len(keys) : Reducible(st.cons, keys[n], keys[m])
    THEN ReduceRescan(constraintsreduction(st, h, w), keys, n + 1, h, w)
    ELSE ReduceRescan(st, keys, n + 1, h, w)

constraintsreduction(st, h, w) ==
    LET reduced == ReducePass([st EXCEPT !.nc = @ + 1], Keys(st.cons), 1,
                              h, w)
        settled == trivialflag(reduced, h, w)
    IN  ReduceRescan(settled, Keys(settled.cons), 1, h, w)

\* CSPSolver.click, lines 773-775
CSPPipeline(st, vb, h, w) ==
    LET added == [st EXCEPT !.cons = addconstraints(@, st.del, vb, h, w)]
    IN  constraintsreduction(trivialflag(added, h, w), h, w)

-----------------------------------------------------------------------------
(* EnumerationSolver.enumerate_probs *)

(***************************************************************************)
(* A candidate board holds -1 at its mines and 0 elsewhere: it is modelled *)
(* as its set of mine cells, and self.boards as a set of candidates (the   *)
(* combinations are distinct, and the list is only counted and filtered).  *)
(***************************************************************************)

\* math.comb(n, k) for 0 <= n, 0 <= k
RECURSIVE Comb(_, _)
Comb(n, k) ==
    IF k = 0 THEN 1
    ELSE IF k > n THEN 0
    ELSE (Comb(n - 1, k - 1) * n) \div k

\* itertools.combinations(S, r) of line 455, as the set of the r-subsets
RECURSIVE combinations(_, _)
combinations(S, r) ==
    IF r = 0 THEN {{}}
    ELSE IF S = {} THEN {}
    ELSE LET x == CHOOSE y \in S : TRUE
         IN  {c \cup {x} : c \in combinations(S \ {x}, r - 1)}
                 \cup combinations(S \ {x}, r)

\* Lines 452-461 with mines_left not reduced by the flagged cells
MutNewBoardsIgnoreFlags(vb, mine_cnt) ==
    {conf \cup get_cells(vb, -3) :
        conf \in combinations(get_cells(vb, -2), mine_cnt)}

\* Lines 452-461: the boards created when self.boards is empty
NewBoards(vb, mine_cnt) ==
    LET mines_left == mine_cnt - Cardinality(get_cells(vb, -3))
    IN  {conf \cup get_cells(vb, -3) :
            conf \in combinations(get_cells(vb, -2), mines_left)}

\* Lines 463-477 with the mines at flagged cells left out of the count of
\* lines 468-472
MutEnumerateBoardsSkipsFlagged(bds, vb, mine_cnt, h, w) ==
    LET all == IF Cardinality(bds) = 0 THEN NewBoards(vb, mine_cnt) ELSE bds
    IN  {b \in all :
            \A cell \in get_cells(vb, 1) :
                Cardinality((Range(get_neighbors_box(cell, h, w)) \cap b)
                                \ get_cells(vb, -3))
                    = vb[cell]}

\* Lines 463-477: self.boards after the query
enumerate_boards(bds, vb, mine_cnt, h, w) ==
    LET all == IF Cardinality(bds) = 0 THEN NewBoards(vb, mine_cnt) ELSE bds
    IN  {b \in all :
            \A cell \in get_cells(vb, 1) :
                Cardinality(Range(get_neighbors_box(cell, h, w)) \cap b)
                    = vb[cell]}

\* Lines 483-486: the count the source keeps in `mines` for a cell, the
\* boards with board[cell.x][cell.y] == 0
ProbCount(bds, cell) == Cardinality({b \in bds : cell \notin b})

\* Cell order of the tuples in the priority queue
CellLeq(c, d) == c[1] < d[1] \/ (c[1] = d[1] /\ c[2] <= d[2])

\* Lines 479-489 and probs.get(): the cell of the least (probability, cell)
\* pair; all pairs share the denominator total_boards
EnumHead(bds, unknown) ==
    CHOOSE c \in unknown :
        \A d \in unknown :
            \/ ProbCount(bds, c) < ProbCount(bds, d)
            \/ (ProbCount(bds, c) = ProbCount(bds, d) /\ CellLeq(c, d))

-----------------------------------------------------------------------------
(* Solver.click: the outcomes of one call *)

(***************************************************************************)
(* The solver's fields travel as a record S = [fc, rnd, rev, tc, tf, cons, *)
(* del, old, new, bds] (firstclick, random, revealed, to_click, to_flag,   *)
(* constraints, deletedconstraints, oldfreecells, newfreecells, boards).   *)
(* A call has a set of outcomes, one per result of random.choice and of    *)
(* the order of the popped batch.  An outcome is the fields on return, the *)
(* (click, cell) pair returned or the exception raised (err), and, as      *)
(* history, the return statement taken (src), whether the CSP stage fell   *)
(* back to random (fell) and the cells the constraint store queued in the  *)
(* call (qc for clicking, qf for flagging, qr those of qc that             *)
(* constraintsreduction queued).                                           *)
(***************************************************************************)
Out(S, click, cell, src) ==
    [S |-> S, click |-> click, cell |-> cell, src |-> src, err |-> "none",
     fell |-> FALSE, qc |-> {}, qf |-> {}, qr |-> {}]

Raise(S, exc) ==
    [S |-> S, click |-> TRUE, cell |-> <<0, 0>>, src |-> "raise",
     err |-> exc, fell |-> FALSE, qc |-> {}, qf |-> {}, qr |-> {}]

\* return True, self.to_click.pop()
PopClick(S, src) ==
    {Out([S EXCEPT !.tc = PopFrom(@, c)], TRUE, c, src) : c \in Poppable(S.tc)}

\* return False, self.to_flag.pop()
PopFlag(S, src) ==
    {Out([S EXCEPT !.tf = PopFrom(@, c)], FALSE, c, src) : c \in Poppable(S.tf)}

\* random.choice over all the cells of the board
MutRandomChoiceAnyCell(S, vb) ==
    {Out(S, TRUE, c, "random") : c \in DOMAIN vb}

\* random.choice(self.get_cells(-2)), an IndexError on an empty list
RandomChoice(S, vb) ==
    IF get_cells(vb, -2) = {}
    THEN {Raise(S, "IndexError")}
    ELSE {Out(S, TRUE, c, "random") : c \in get_cells(vb, -2)}

\* DeductionSolver.click
DeductionSolverClick(S0, vb, h, w) ==
    LET d  == deduce(S0.tc, S0.tf, vb, h, w)
        S1 == [S0 EXCEPT !.rnd = FALSE,
                         !.tc = revise_to_click(d.tc, vb),
                         !.tf = d.tf,
                         !.fc = FALSE]
    IN  IF Len(S1.tc) > 0 THEN PopClick(S1, "deduction")
        ELSE IF Len(S1.tf) > 0 THEN PopFlag(S1, "deduction")
        ELSE RandomChoice([S1 EXCEPT !.rnd = TRUE], vb)

\* CSPSolver.click, lines 755-757 (and 761-763, 777-779, 783-785, 788-790):
\* the board has not changed since line 748, so update_revealed adds nothing
LeaveCSP(S) == [S EXCEPT !.old = S.rev, !.fc = FALSE]

\* CSPSolver.click
CSPSolverClick(S0, vb, h, w) ==
    LET rev1 == update_revealed(S0.rev, vb)
        S1   == [S0 EXCEPT !.rnd = FALSE,
                           !.rev = rev1,
                           !.new = rev1 \ S0.old,
                           !.cons = pruneunknownneighs(@, rev1 \ S0.old)]
    IN  IF Len(S1.tc) > 0 THEN PopClick(LeaveCSP(S1), "queue")
        ELSE IF Len(S1.tf) > 0 THEN PopFlag(LeaveCSP(S1), "queue")
        ELSE IF S1.fc
        THEN {Out([S1 EXCEPT !.fc = FALSE], TRUE, Centre(h, w), "centre")}
        ELSE LET st == CSPPipeline([cons |-> S1.cons, del |-> S1.del,
                                    tc |-> S1.tc, tf |-> S1.tf,
                                    qr |-> {}, nc |-> 0], vb, h, w)
                 S2 == LeaveCSP([S1 EXCEPT !.cons = st.cons, !.del = st.del,
                                           !.tc = st.tc, !.tf = st.tf])
                 Queued(o) == [o EXCEPT !.qc = QueueCells(st.tc),
                                        !.qf = QueueCells(st.tf),
                                        !.qr = st.qr]
             IN  IF Len(S2.tc) > 0
                 THEN {Queued(o) : o \in PopClick(S2, "csp")}
                 ELSE IF Len(S2.tf) > 0
                 THEN {Queued(o) : o \in PopFlag(S2, "csp")}
                 ELSE {[Queued(o) EXCEPT !.fell = TRUE] :
                          o \in RandomChoice([S2 EXCEPT !.rnd = TRUE], vb)}

\* CSPDeductionSolver.click, lines 810-827, after super().click returned o
DeduceIfRandom(o, vb, h, w) ==
    IF o.err # "none" \/ ~o.S.rnd
    THEN {o}
    ELSE LET d  == deduce(o.S.tc, o.S.tf, vb, h, w)
             S1 == [o.S EXCEPT !.tc = revise_to_click(d.tc, vb),
                               !.tf = d.tf,
                               !.fc = FALSE,
                               !.rnd = FALSE]
             Kept(p) == [p EXCEPT !.fell = o.fell, !.qc = o.qc, !.qf = o.qf,
                                  !.qr = o.qr]
         IN  IF Len(S1.tc) > 0
             THEN {Kept(p) : p \in PopClick(S1, "deduction")}
             ELSE IF Len(S1.tf) > 0
             THEN {Kept(p) : p \in PopFlag(S1, "deduction")}
             ELSE {[o EXCEPT !.S = S1]}

\* CSPDeductionSolver.click
CSPDeductionSolverClick(S0, vb, h, w) ==
    UNION {DeduceIfRandom(o, vb, h, w) :
              o \in CSPSolverClick([S0 EXCEPT !.rnd = FALSE], vb, h, w)}

\* CSPEnumerationSolver.click without the budget test of line 841
MutEnumerateIfRandomNoBudget(o, vb, mine_cnt, h, w) ==
    IF o.err # "none" \/ ~o.S.rnd
    THEN {o}
    ELSE LET bds == enumerate_boards(o.S.bds, vb, mine_cnt, h, w)
         IN  {[o EXCEPT !.S = [o.S EXCEPT !.bds = bds],
                        !.cell = EnumHead(bds, get_cells(vb, -2)),
                        !.src = "enum"]}

\* CSPEnumerationSolver.click, lines 837-848 (CDESolver.click, 858-869),
\* after super().click returned o
EnumerateIfRandom(o, vb, mine_cnt, h, w) ==
    IF o.err # "none" \/ ~o.S.rnd
    THEN {o}
    ELSE LET Kept(p)    == [p EXCEPT !.fell = o.fell, !.qc = o.qc,
                                     !.qf = o.qf, !.qr = o.qr]
             unknown    == get_cells(vb, -2)
             mines_left == mine_cnt - Cardinality(get_cells(vb, -3))
             bds        == enumerate_boards(o.S.bds, vb, mine_cnt, h, w)
             S1         == [o.S EXCEPT !.bds = bds]
         IN  IF mines_left < 0
             THEN {Kept(Raise(o.S, "ValueError"))}
             ELSE IF Comb(Cardinality(unknown), mines_left) < MAX_COMBS
             THEN IF unknown # {} /\ Cardinality(bds) = 0
                  THEN {Kept(Raise(S1, "ZeroDivisionError"))}
                  ELSE IF unknown = {}
                  THEN {Kept(Raise(S1, "QueueGetBlocks"))}
                  ELSE {[o EXCEPT !.S = S1,
                                  !.cell = EnumHead(bds, unknown),
                                  !.src = "enum"]}
             ELSE {Kept(p) : p \in RandomChoice(o.S, vb)}

\* CSPEnumerationSolver.click
CSPEnumerationSolverClick(S0, vb, mine_cnt, h, w) ==
    UNION {EnumerateIfRandom(o, vb, mine_cnt, h, w) :
              o \in CSPSolverClick(S0, vb, h, w)}

\* CDESolver.click
CDESolverClick(S0, vb, mine_cnt, h, w) ==
    UNION {EnumerateIfRandom(o, vb, mine_cnt, h, w) :
              o \in CSPDeductionSolverClick(S0, vb, h, w)}

-----------------------------------------------------------------------------
(* The driver loop: while game.outcome() is None, ask the solver for an    *)
(* action and apply it (minesweeper.py, lines 287-294)                     *)

Solvers == {"DeductionSolver", "CSPSolver", "CSPDeductionSolver",
            "CSPEnumerationSolver", "CDESolver"}

\* Solver.__init__ and the __init__ of its subclasses
SolverNew ==
    /\ s_firstclick = TRUE
    /\ s_random = FALSE
    /\ s_revealed = {}
    /\ to_click = <<>>
    /\ to_flag = <<>>
    /\ constraints = <<>>
    /\ deletedconstraints = <<>>
    /\ oldfreecells = {}
    /\ newfreecells = {}
    /\ boards = {}
    /\ pc = "solve"
    /\ action = [click |-> TRUE, cell |-> <<0, 0>>]
    /\ ret = [src |-> "none", fell |-> FALSE, qc |-> {}, qf |-> {},
              qr |-> {}]

SolverState ==
    [fc |-> s_firstclick, rnd |-> s_random, rev |-> s_revealed,
     tc |-> to_click, tf |-> to_flag, cons |-> constraints,
     del |-> deletedconstraints, old |-> oldfreecells,
     new |-> newfreecells, bds |-> boards]

\* The loop test of line 287
Ready == pc = "solve" /\ error = "none" /\ outcome = "InProgress"

\* solve.click(board) returned, or raised
Return(o) ==
    /\ s_firstclick' = o.S.fc
    /\ s_random' = o.S.rnd
    /\ s_revealed' = o.S.rev
    /\ to_click' = o.S.tc
    /\ to_flag' = o.S.tf
    /\ constraints' = o.S.cons
    /\ deletedconstraints' = o.S.del
    /\ oldfreecells' = o.S.old
    /\ newfreecells' = o.S.new
    /\ boards' = o.S.bds
    /\ action' = IF o.err = "none"
                 THEN [click |-> o.click, cell |-> o.cell]
                 ELSE action
    /\ ret' = [src |-> o.src, fell |-> o.fell, qc |-> o.qc, qf |-> o.qf,
               qr |-> o.qr]
    /\ error' = o.err
    /\ pc' = IF o.err = "none" THEN "apply" ELSE pc
    /\ UNCHANGED <<solver, height, width, mine_count, mines, flags, revealed,
                   firstclick, failed, board, vboard, last, nops>>

DeductionSolverCall ==
    /\ solver = "DeductionSolver" /\ Ready
    /\ \E o \in DeductionSolverClick(SolverState, vboard, height, width) :
          Return(o)

CSPSolverCall ==
    /\ solver = "CSPSolver" /\ Ready
    /\ \E o \in CSPSolverClick(SolverState, vboard, height, width) :
          Return(o)

CSPDeductionSolverCall ==
    /\ solver = "CSPDeductionSolver" /\ Ready
    /\ \E o \in CSPDeductionSolverClick(SolverState, vboard, height, width) :
          Return(o)

CSPEnumerationSolverCall ==
    /\ solver = "CSPEnumerationSolver" /\ Ready
    /\ \E o \in CSPEnumerationSolverClick(SolverState, vboard, mine_count,
                                          height, width) :
          Return(o)

CDESolverCall ==
    /\ solver = "CDESolver" /\ Ready
    /\ \E o \in CDESolverClick(SolverState, vboard, mine_count,
                               height, width) :
          Return(o)

\* Lines 291-294
ApplyClick ==
    /\ pc = "apply" /\ action.click
    /\ GameClick(action.cell)
    /\ pc' = "solve"
    /\ UNCHANGED <<solver, action, s_firstclick, s_random, s_revealed,
                   to_click, to_flag, constraints, deletedconstraints,
                   oldfreecells, newfreecells, boards, ret>>

ApplyFlag ==
    /\ pc = "apply" /\ ~action.click
    /\ GameFlag(action.cell)
    /\ pc' = "solve"
    /\ UNCHANGED <<solver, action, s_firstclick, s_random, s_revealed,
                   to_click, to_flag, constraints, deletedconstraints,
                   oldfreecells, newfreecells, boards, ret>>

SolverInit ==
    /\ GameInit(ConfigsUpTo(SolverMaxCells, SolverMaxMines))
    /\ solver \in Solvers
    /\ SolverNew

SolverNext ==
    \/ DeductionSolverCall
    \/ CSPSolverCall
    \/ CSPDeductionSolverCall
    \/ CSPEnumerationSolverCall
    \/ CDESolverCall
    \/ ApplyClick
    \/ ApplyFlag

SolverSpec == SolverInit /\ [][SolverNext]_vars

\* The loop is running: no call has raised, and either an action waits to
\* be applied or the loop test of line 287 passes.  A step of SolverNext is
\* possible exactly in these states.
Running == error = "none" /\ (pc = "apply" \/ outcome = "InProgress")

\* The driver loop is sequential code, so while it is running its next step
\* is taken: weak fairness of SolverNext, with ENABLED <<SolverNext>>_vars
\* written as Running
SolverLiveSpec ==
    /\ SolverInit /\ [][SolverNext]_vars
    /\ ([]<>(~Running) \/ []<><<SolverNext>>_vars)

-----------------------------------------------------------------------------
(* The trivial game of solvers_test.py: the 5x5 board with its one mine at *)
(* (1,2), played by the driver loop with DeductionSolver or with           *)
(* CSPEnumerationSolver                                                    *)

TrivialInit ==
    /\ GameInitWith(<<5, 5, 1>>, {<<1, 2>>})
    /\ solver \in {"DeductionSolver", "CSPEnumerationSolver"}
    /\ SolverNew

TrivialNext ==
    \/ DeductionSolverCall
    \/ CSPEnumerationSolverCall
    \/ ApplyClick
    \/ ApplyFlag

TrivialSpec == TrivialInit /\ [][TrivialNext]_vars

-----------------------------------------------------------------------------
(* A game in which the enumeration budget is exceeded: the 4x4 board with  *)
(* six mines, played by the driver loop with CSPEnumerationSolver.  After   *)
(* the click on the centre 15 cells are Unknown, and math.comb(15, 6) =     *)
(* 5005 is not below MAX_COMBS; one more revealed cell brings the number of *)
(* combinations below it.  The layouts tried have their mines in the two    *)
(* top rows and none at (0, 0).                                             *)

BudgetLayouts ==
    {ms \in SUBSET (CellsOf(2, 4) \ {<<0, 0>>}) : Cardinality(ms) = 6}

BudgetInit ==
    /\ \E ms \in BudgetLayouts : GameInitWith(<<4, 4, 6>>, ms)
    /\ solver = "CSPEnumerationSolver"
    /\ SolverNew

BudgetNext ==
    \/ CSPEnumerationSolverCall
    \/ ApplyClick
    \/ ApplyFlag

BudgetSpec == BudgetInit /\ [][BudgetNext]_vars

-----------------------------------------------------------------------------
(* CSPSolver.trivialflag and trivialclick, call by call, from any           *)
(* constraint store on a board of one row.  Each method ends with at most   *)
(* one call of itself or of the other, followed by break and return, so the *)
(* recursion is a chain of calls; pc is the method about to run and nops    *)
(* the number of calls made.                                                *)

\* The loop of lines 663-669 with the two calls exchanged
MutRescanTargetSwapped(st) ==
    LET hits == {i \in 1 .. Len(st.cons) :
                    \/ st.cons[i].cnt = 0
                    \/ Cardinality(st.cons[i].unk) = st.cons[i].cnt}
    IN  IF hits = {}
        THEN "return"
        ELSE LET first == CHOOSE i \in hits : \A j \in hits : i <= j
             IN  IF st.cons[first].cnt = 0
                 THEN "trivialflag"
                 ELSE "trivialclick"

\* The loop of lines 663-669 without the elif branch of line 667
MutRescanTargetZeroOnly(st) ==
    IF \E i \in 1 .. Len(st.cons) : st.cons[i].cnt = 0
    THEN "trivialclick"
    ELSE "return"

\* Lines 662-669 and 691-698: the method the first trivially resolvable
\* constraint, in dict order, makes the loop call, or "return" if the loop
\* ends without a call
RescanTarget(st) ==
    LET hits == {i \in 1 .. Len(st.cons) :
                    \/ st.cons[i].cnt = 0
                    \/ Cardinality(st.cons[i].unk) = st.cons[i].cnt}
    IN  IF hits = {}
        THEN "return"
        ELSE LET first == CHOOSE i \in hits : \A j \in hits : i <= j
             IN  IF st.cons[first].cnt = 0
                 THEN "trivialclick"
                 ELSE "trivialflag"

\* The constraints a cell may have: any set of its neighbours, any count
StoreConstraints ==
    UNION {{[key |-> c, unk |-> u, cnt |-> n] :
               u \in SUBSET Range(get_neighbors_box(c, 1, StoreCells)),
               n \in 0 .. StoreMaxCount} :
           c \in CellsOf(1, StoreCells)}

\* self.constraints: at most StoreMaxCons constraints, one per key
Stores ==
    UNION {{cons \in [1 .. n -> StoreConstraints] :
               \A i, j \in 1 .. n : cons[i].key = cons[j].key => i = j} :
           n \in 0 .. StoreMaxCons}

Store ==
    [cons |-> constraints, del |-> deletedconstraints,
     tc |-> to_click, tf |-> to_flag, qr |-> {}, nc |-> 0]

StoreInit ==
    /\ GameInitWith(<<1, StoreCells, 0>>, {})
    /\ solver = "CSPSolver"
    /\ s_firstclick = FALSE
    /\ s_random = FALSE
    /\ s_revealed = {}
    /\ to_click = << >>
    /\ to_flag = << >>
    /\ constraints \in Stores
    /\ deletedconstraints = << >>
    /\ oldfreecells = {}
    /\ newfreecells = {}
    /\ boards = {}
    /\ pc \in {"trivialflag", "trivialclick"}
    /\ action = [click |-> TRUE, cell |-> <<0, 0>>]
    /\ ret = [src |-> "none", fell |-> FALSE, qc |-> {}, qf |-> {},
              qr |-> {}]

\* One call of a method: its pass over the copied keys and the loop that
\* decides the next call
StoreCall(st) ==
    /\ constraints' = st.cons
    /\ deletedconstraints' = st.del
    /\ to_click' = st.tc
    /\ to_flag' = st.tf
    /\ pc' = RescanTarget(st)
    /\ nops' = nops + 1
    /\ UNCHANGED <<height, width, mine_count, mines, flags, revealed,
                   firstclick, failed, board, vboard, error, last, solver,
                   action, s_firstclick, s_random, s_revealed, oldfreecells,
                   newfreecells, boards, ret>>

TrivialFlagCall ==
    /\ pc = "trivialflag"
    /\ StoreCall(TrivialFlagPass(Store, Keys(constraints), 1, height, width))

TrivialClickCall ==
    /\ pc = "trivialclick"
    /\ StoreCall(TrivialClickPass(Store, Keys(constraints), 1, height, width))

StoreNext == TrivialFlagCall \/ TrivialClickCall

StoreSpec == StoreInit /\ [][StoreNext]_vars

-----------------------------------------------------------------------------
(* CSPSolver.pruneunknownneighs followed by constraintsreduction, on the    *)
(* stores CSPSolver builds in a game.  The game has a board of ReduceRows   *)
(* by ReduceCols cells and at most SolverMaxMines mines; the store holds    *)
(* the constraints addconstraints created when the cells of a set old were  *)
(* revealed, and at most ReduceMaxNew cells have been revealed since.  pc   *)
(* is the method about to run and nops the number of calls made, the        *)
(* recursive calls of constraintsreduction included.                        *)

\* The visible board that shows the cells of R and nothing else
VisibleOf(b, R) == [c \in DOMAIN b |-> IF c \in R THEN b[c] ELSE -2]

\* The sets of cells reveal can have revealed on hidden board b: no mine,
\* and with a cell of count 0 all its neighbours
Revealable(b, h, w) ==
    {R \in SUBSET {c \in CellsOf(h, w) : b[c] # -1} :
        \A c \in R : b[c] = 0 => NeighborSet(c, h, w) \subseteq R}

ReduceInit ==
    /\ height = ReduceRows
    /\ width = ReduceCols
    /\ mines \in {ms \in SUBSET CellsOf(ReduceRows, ReduceCols) :
                      Cardinality(ms) <= SolverMaxMines}
    /\ mine_count = Cardinality(mines)
    /\ board = NewBoard(ReduceRows, ReduceCols, mines)
    /\ oldfreecells \in Revealable(board, ReduceRows, ReduceCols)
    /\ revealed \in Revealable(board, ReduceRows, ReduceCols)
    /\ oldfreecells \subseteq revealed
    /\ Cardinality(revealed \ oldfreecells) <= ReduceMaxNew
    /\ newfreecells = revealed \ oldfreecells
    /\ s_revealed = revealed
    /\ vboard = VisibleOf(board, revealed)
    /\ constraints = addconstraints(<< >>, << >>,
                                    VisibleOf(board, oldfreecells),
                                    ReduceRows, ReduceCols)
    /\ flags = {}
    /\ firstclick = (revealed = {})
    /\ failed = FALSE
    /\ error = "none"
    /\ last = [op |-> "new", cell |-> <<0, 0>>,
               first |-> FALSE, mine |-> FALSE]
    /\ nops = 0
    /\ solver = "CSPSolver"
    /\ s_firstclick = FALSE
    /\ s_random = FALSE
    /\ to_click = << >>
    /\ to_flag = << >>
    /\ deletedconstraints = << >>
    /\ boards = {}
    /\ pc = "pruneunknownneighs"
    /\ action = [click |-> TRUE, cell |-> <<0, 0>>]
    /\ ret = [src |-> "none", fell |-> FALSE, qc |-> {}, qf |-> {},
              qr |-> {}]

PruneCall ==
    /\ pc = "pruneunknownneighs"
    /\ constraints' = pruneunknownneighs(constraints, newfreecells)
    /\ pc' = "constraintsreduction"
    /\ nops' = nops + 1
    /\ UNCHANGED <<height, width, mine_count, mines, flags, revealed,
                   firstclick, failed, board, vboard, error, last, solver,
                   action, s_firstclick, s_random, s_revealed, to_click,
                   to_flag, deletedconstraints, oldfreecells, newfreecells,
                   boards, ret>>

ReductionCall ==
    /\ pc = "constraintsreduction"
    /\ LET st == constraintsreduction(Store, height, width)
       IN  /\ constraints' = st.cons
           /\ deletedconstraints' = st.del
           /\ to_click' = st.tc
           /\ to_flag' = st.tf
           /\ nops' = nops + st.nc
    /\ pc' = "return"
    /\ UNCHANGED <<height, width, mine_count, mines, flags, revealed,
                   firstclick, failed, board, vboard, error, last, solver,
                   action, s_firstclick, s_random, s_revealed, oldfreecells,
                   newfreecells, boards, ret>>

ReduceNext == PruneCall \/ ReductionCall

ReduceSpec == ReduceInit /\ [][ReduceNext]_vars

-----------------------------------------------------------------------------
(* The game engine under any sequence of click and flag operations *)

Init ==
    /\ GameInit(ConfigsUpTo(MaxCells, MaxMines))
    /\ solver = "none"
    /\ SolverNew

ClickOp ==
    /\ nops < MaxOps
    /\ \E cell \in Cells : GameClick(cell)
    /\ UNCHANGED solverVars

FlagOp ==
    /\ nops < MaxOps
    /\ \E cell \in Cells : GameFlag(cell)
    /\ UNCHANGED solverVars

Next == ClickOp \/ FlagOp

Spec == Init /\ [][Next]_vars

-----------------------------------------------------------------------------
(* MineSweeperGame.__init__ step by step, for any integer mine_count from   *)
(* -1 up: the argument check, the placement loop and the return.  While    *)
(* __init__ runs last.op is "init"; vboard is assigned only at the end.    *)

\* The arguments tried: boards of at most maxCells cells, mine_count from -1
ArgsUpTo(maxCells, maxMines) ==
    {cfg \in (1 .. maxCells) \X (1 .. maxCells) \X ((-1) .. maxMines) :
        cfg[1] * cfg[2] <= maxCells}

\* Lines 49-74: the check raises, or the fields are set and the field is
\* empty
CtorInit ==
    /\ \E cfg \in ArgsUpTo(MaxCells, MaxMines) :
          /\ height = cfg[1]
          /\ width = cfg[2]
          /\ mine_count = cfg[3]
          /\ IF cfg[3] >= cfg[1] * cfg[2]
             THEN error = "ValueError" /\ board = << >>
             ELSE /\ error = "none"
                  /\ board = [c \in CellsOf(cfg[1], cfg[2]) |-> 0]
    /\ mines = {}
    /\ flags = {}
    /\ revealed = {}
    /\ firstclick = TRUE
    /\ failed = FALSE
    /\ vboard = << >>
    /\ last = [op |-> "init", cell |-> <<0, 0>>,
               first |-> FALSE, mine |-> FALSE]
    /\ nops = 0
    /\ solver = "none"
    /\ SolverNew

\* Lines 77-82: one turn of the placement loop, for any (i, j) drawn
PlaceMine ==
    /\ last.op = "init" /\ error = "none"
    /\ Cardinality(mines) # mine_count
    /\ \E c \in Cells :
          IF board[c] = 0
          THEN /\ mines' = mines \cup {c}
               /\ board' = [board EXCEPT ![c] = -1]
          ELSE UNCHANGED <<mines, board>>
    /\ UNCHANGED <<height, width, mine_count, flags, revealed, firstclick,
                   failed, vboard, error, last, nops, solverVars>>

\* Lines 77 and 84-93: the loop ends, the counts and the visible board
CtorReturn ==
    /\ last.op = "init" /\ error = "none"
    /\ Cardinality(mines) = mine_count
    /\ board' = populate_board(board, height, width)
    /\ vboard' = [c \in Cells |-> -2]
    /\ last' = [last EXCEPT !.op = "new"]
    /\ UNCHANGED <<height, width, mine_count, mines, flags, revealed,
                   firstclick, failed, error, nops, solverVars>>

CtorNext == PlaceMine \/ CtorReturn

CtorSpec == CtorInit /\ [][CtorNext]_vars

-----------------------------------------------------------------------------
(* Properties of the game engine *)

\* The 8-connected region of 0-count cells of board b that contains cell c
RECURSIVE ZeroRegionFrom(_, _, _, _)
ZeroRegionFrom(b, S, h, w) ==
    LET T == S \cup {n \in CellsOf(h, w) :
                        b[n] = 0 /\ \E z \in S : n \in NeighborSet(z, h, w)}
    IN  IF T = S THEN S ELSE ZeroRegionFrom(b, T, h, w)

\* That region plus every in-bounds neighbour of one of its cells
CascadeSet(b, c, h, w) ==
    LET R == ZeroRegionFrom(b, {c}, h, w)
    IN  R \cup UNION {NeighborSet(z, h, w) : z \in R}

\* C1: the first click on a freshly constructed game, on any cell, leaves
\* failed false and the clicked cell revealed, also when the cell held a mine.
C1_FirstClickSafe ==
    (last.op = "click" /\ nops = 1) => (~failed /\ last.cell \in revealed)

C1_Witness ==
    /\ last.op = "click" /\ nops = 1 /\ last.mine
    /\ ~failed /\ last.cell \in revealed

\* C2 as claimed: outcome() is Won if and only if the flag set equals the
\* mine set.
C2_WonIffFlagsAreMines == (outcome = "Won") <=> (flags = mines)

\* C2 amended: outcome() is Won if and only if failed is false and the flag
\* set equals the mine set.
C2_WonIffNotFailedAndFlagsAreMines ==
    (outcome = "Won") <=> (~failed /\ flags = mines)

C2_Witness ==
    outcome = "Won" /\ last.op = "flag" /\ mine_count >= 1

\* C3: when a flag() call returns with more flags than mines, failed is true.
C3_OverFlaggingLoses ==
    (last.op = "flag" /\ Cardinality(flags) > Cardinality(mines)) => failed

\* C4 as claimed: a click on a non-mine cell of count 0 makes the revealed
\* set grow by exactly the cascade set (the 0-region of the cell and its
\* ring); every cell of the set shows its hidden count, none is a mine, and
\* every other cell keeps its visible value.
C4_CascadeExact ==
    [][(last'.op = "click" /\ nops' = nops + 1 /\ board[last'.cell] = 0) =>
          LET S == CascadeSet(board, last'.cell, height, width)
          IN  /\ revealed' = revealed \cup S
              /\ \A x \in S : board'[x] # -1 /\ vboard'[x] = board'[x]
              /\ \A x \in Cells \ S : vboard'[x] = vboard[x]]_vars

\* C4 amended: as claimed, except that the cells that show their hidden
\* count are the clicked cell and the cells of the set not revealed before
\* the click; a cell of the set revealed before keeps its visible value.
C4_CascadeExactOnNew ==
    [][(last'.op = "click" /\ nops' = nops + 1 /\ board[last'.cell] = 0) =>
          LET S == CascadeSet(board, last'.cell, height, width)
              N == (S \ revealed) \cup {last'.cell}
          IN  /\ revealed' = revealed \cup S
              /\ \A x \in S : board'[x] # -1
              /\ \A x \in N : vboard'[x] = board'[x]
              /\ \A x \in Cells \ N : vboard'[x] = vboard[x]]_vars

C4_Witness ==
    /\ last.op = "click" /\ ~last.mine /\ board[last.cell] = 0
    /\ \E x \in CascadeSet(board, last.cell, height, width) :
          board[x] > 0 /\ x \in flags /\ vboard[x] = -3
    /\ \E x \in CascadeSet(board, last.cell, height, width) :
          x # last.cell /\ board[x] = 0 /\ vboard[x] = 0

\* C5: after construction and after every click or flag, the mine set has
\* exactly mine_count elements.
C5_MineCountConserved == Cardinality(mines) = mine_count

C5_Witness ==
    /\ last.op = "click" /\ last.first /\ last.mine
    /\ last.cell \notin mines /\ Cardinality(mines) = mine_count

\* C10: once failed is true it stays true (Lost is absorbing).
C10_LostAbsorbing == [][failed => failed']_vars

C10_Witness ==
    failed /\ last.op = "click" /\ ~last.mine /\ last.cell \in revealed

\* C11: once the outcome is Won, every further click or flag leaves it Won.
C11_WonTerminal == [][outcome = "Won" => outcome' = "Won"]_vars

\* C12: every revealed cell is not Unknown on the visible board and is not
\* a mine on the hidden board.
C12_RevealedKnownAndSafe ==
    \A c \in revealed : vboard[c] # -2 /\ board[c] # -1

C12_Witness ==
    /\ last.op = "flag" /\ last.cell \in revealed
    /\ \E c \in revealed : board[c] > 0 /\ vboard[c] = board[c]

\* C13: no sequence of click and flag calls makes reveal run on a mine: the
\* RevealedMine error never occurs.
C13_NoRevealedMine == error # "RevealedMine"

C13_Witness ==
    /\ last.op = "click" /\ ~last.mine /\ board[last.cell] = 0
    /\ Cardinality(revealed) > 1 /\ mines # {} /\ error = "none"

\* C14: construction raises ValueError if and only if mine_count >=
\* height*width; for every other configuration it returns (the loop's exit
\* test can still become true: it has not placed more mines than asked
\* for), and the game it returns has an all-Unknown visible board, no flag,
\* no revealed cell, failed false and the first click pending.
C14_ConstructionTotal ==
    /\ (error = "ValueError") <=> (mine_count >= height * width)
    /\ (mine_count < height * width /\ last.op = "init")
           => Cardinality(mines) <= mine_count
    /\ last.op = "new"
           => /\ \A c \in Cells : vboard[c] = -2
              /\ flags = {} /\ revealed = {}
              /\ ~failed /\ firstclick

\* The first non-mine cell of mine set ms in row-major order from (0,0)
FirstSafeRowMajor(ms) ==
    CHOOSE m \in Cells \ ms :
        \A x \in Cells \ ms :
            m[1] < x[1] \/ (m[1] = x[1] /\ m[2] <= x[2])

C16_FlaggingMinesWins ==
    [][(/\ ~failed /\ flags \subseteq mines
        /\ last'.op = "flag" /\ nops' = nops + 1
        /\ last'.cell \in mines \ flags)
        => /\ ~failed'
           /\ outcome' = IF flags' = mines THEN "Won" ELSE "InProgress"
           /\ flags' = flags \cup {last'.cell}
           /\ outcome = "InProgress"]_vars

C16_Witness ==
    /\ outcome = "Won" /\ last.op = "flag"
    /\ Cardinality(mines) = 2 /\ revealed # {}

\* C17: a click that is not the first and lands on a mine sets failed, raises
\* no error and leaves both boards and the mine, flag and revealed sets
\* unchanged.
C17_MineClickOnlyFails ==
    [][(last'.op = "click" /\ nops' = nops + 1 /\ ~last'.first /\ last'.mine)
        => /\ failed' /\ error' = "none"
           /\ UNCHANGED <<board, vboard, mines, flags, revealed>>]_vars

C17_Witness ==
    /\ last.op = "click" /\ ~last.first /\ last.mine
    /\ failed /\ revealed # {}


\* C26: a freshly constructed game, to which no click or flag has been
\* applied, has outcome InProgress.
C26_FreshGameInProgress ==
    (last.op = "new" /\ nops = 0) => outcome = "InProgress"

\* C37: the hidden board and the mine set change only in a click made
\* while the first click is pending and landing on a mine; such a click
\* finds no cell revealed and ends the pending first click for good, so
\* every flag, every later click and a first click on a non-mine cell leave
\* both unchanged.
C37_RelocationOnlyOnFirstMineClick ==
    [][/\ (board' # board \/ mines' # mines)
            => /\ last'.op = "click" /\ last'.first /\ last'.mine
               /\ firstclick /\ revealed = {}
       /\ last'.op = "click" => ~firstclick'
       /\ ~firstclick => ~firstclick']_vars

C37_Witness ==
    /\ last.op = "click" /\ last.first /\ last.mine
    /\ last.cell \notin mines /\ board[last.cell] # -1
    /\ flags # {} /\ nops = 3

\* C38: every visible-board entry is -3, -2 or a count from 0 to 8, never
\* -1; a visible count equals the hidden board's entry of the cell, which
\* is the number of mines of the current mine set among the cell's
\* neighbours.
C38_VisibleCountsMatchHidden ==
    \A c \in Cells :
        /\ vboard[c] \in {-3, -2} \cup (0 .. 8)
        /\ vboard[c] \in 0 .. 8 =>
               /\ vboard[c] = board[c]
               /\ board[c] = Cardinality(NeighborSet(c, height, width)
                                             \cap mines)

C38_Witness ==
    /\ last.op = "click" /\ last.first /\ last.mine
    /\ vboard[last.cell] > 0 /\ nops > 1

\* C39: the cells shown as Flagged (-3) on the visible board are exactly the
\* cells of the flag set.
C39_FlaggedShownAreFlags ==
    \A c \in Cells : (vboard[c] = -3) <=> (c \in flags)

-----------------------------------------------------------------------------
(* Properties of the solvers *)

\* C6: in a game driven by CSPSolver, every cell the constraint store queues
\* for flagging is a mine and every cell it queues for clicking is not.
C6_CSPSound ==
    solver = "CSPSolver" =>
        (ret.qf \subseteq mines /\ ret.qc \cap mines = {})

C6_Witness ==
    /\ solver = "CSPSolver" /\ pc = "apply"
    /\ ret.qf # {} /\ ret.qr # {}

\* C7: every action a strategy returns targets a cell that is Unknown on
\* the board passed to the call.
C7_TargetsUnknown == pc = "apply" => vboard[action.cell] = -2

\* C8: the cell the enumeration engine returns is an Unknown cell that is a
\* mine in the fewest surviving candidate boards.
C8_EnumPicksLeastLikelyMine ==
    LET MineBoards(c) == Cardinality({b \in boards : c \in b})
    IN  (pc = "apply" /\ ret.src = "enum") =>
            /\ vboard[action.cell] = -2
            /\ \A d \in get_cells(vboard, -2) :
                  MineBoards(action.cell) <= MineBoards(d)

\* C9: in CDESolver, when the CSP stage fell back to random, deduction
\* yielded no action and the number of combinations is below the budget,
\* the click returned is the enumeration engine's.
C9_CDEEnumerates ==
    LET mines_left == mine_count - Cardinality(get_cells(vboard, -3))
    IN  (/\ solver = "CDESolver" /\ pc = "apply"
         /\ ret.fell /\ ret.src # "deduction"
         /\ mines_left >= 0
         /\ Comb(Cardinality(get_cells(vboard, -2)), mines_left) < MAX_COMBS)
        => ret.src = "enum"

\* C18: in a game driven by DeductionSolver every flag action returned
\* targets a mine and every click action returned with the random flag
\* False targets a non-mine; the flag set is a subset of the mine set, and
\* the game is lost only by a random-fallback click.
C18_DeductionSound ==
    solver = "DeductionSolver" =>
        /\ (pc = "apply" /\ ~action.click) => action.cell \in mines
        /\ (pc = "apply" /\ action.click /\ ~s_random)
               => action.cell \notin mines
        /\ flags \subseteq mines
        /\ failed => (last.op = "click" /\ ret.src = "random")

C18_Witness ==
    /\ solver = "DeductionSolver" /\ pc = "apply"
    /\ action.click /\ ~s_random /\ flags # {}

\* C19: on the 5x5 board with its one mine at (1,2), the driver loop with
\* DeductionSolver is never Lost and, once it has ended, has ended Won.
C19_TrivialDeductionWins ==
    (solver = "DeductionSolver" /\ height = 5 /\ width = 5 /\ mine_count = 1)
        => outcome \in {"InProgress", "Won"}

\* C20: on the 5x5 board with its one mine at (1,2), the driver loop with
\* CSPEnumerationSolver, once it has ended, has ended Won.
C20_TrivialCSPEnumerationWins ==
    (/\ solver = "CSPEnumerationSolver"
     /\ height = 5 /\ width = 5 /\ mine_count = 1
     /\ outcome # "InProgress")
        => outcome = "Won"

\* C21: for each of the five solvers the driver loop raises nothing and
\* reaches a terminal outcome, Won or Lost, whatever the layout and the
\* random choices are.
C21_DriverTerminates ==
    [](error = "none") /\ <>(outcome \in {"Won", "Lost"})

C21_Witness ==
    /\ solver = "CSPSolver" /\ pc = "solve" /\ outcome = "Won"
    /\ error = "none" /\ nops > 3 /\ Cardinality(flags) = 2

\* C22: when the enumeration engine chooses the click and some Unknown cell
\* is safe in some surviving candidate board, the cell chosen is not a mine
\* in every surviving candidate.
C22_EnumAvoidsKnownMine ==
    (/\ pc = "apply" /\ ret.src = "enum"
     /\ \E d \in get_cells(vboard, -2) : \E b \in boards : d \notin b)
        => \E b \in boards : action.cell \notin b

\* C23: CSPEnumerationSolver enumerates only on a call whose CSP stage fell
\* back to random; on such a call the click returned is the enumeration
\* engine's choice when the number of combinations is below MAX_COMBS and
\* a click on some Unknown cell otherwise; no call raises.
C23_EnumerationWithinBudget ==
    LET unknown    == get_cells(vboard, -2)
        mines_left == mine_count - Cardinality(get_cells(vboard, -3))
    IN  solver = "CSPEnumerationSolver" =>
            /\ error = "none"
            /\ (pc = "apply" /\ ret.src = "enum") => ret.fell
            /\ (pc = "apply" /\ ret.fell) =>
                   /\ action.click
                   /\ mines_left >= 0
                   /\ IF Comb(Cardinality(unknown), mines_left) < MAX_COMBS
                      THEN /\ ret.src = "enum"
                           /\ action.cell = EnumHead(boards, unknown)
                      ELSE /\ ret.src = "random"
                           /\ action.cell \in unknown

C23_Witness ==
    /\ solver = "CSPEnumerationSolver" /\ pc = "apply"
    /\ ret.fell /\ ret.src = "random"
    /\ Comb(Cardinality(get_cells(vboard, -2)),
            mine_count - Cardinality(get_cells(vboard, -3))) >= MAX_COMBS

C25_FirstClickCentre ==
    (/\ solver \in {"CSPSolver", "CSPDeductionSolver",
                   "CSPEnumerationSolver", "CDESolver"}
     /\ pc = "apply" /\ nops = 0)
        => /\ action = [click |-> TRUE,
                        cell |-> <<height \div 2, width \div 2>>]
           /\ constraints = << >>
           /\ deletedconstraints = << >>

C25_Witness ==
    /\ solver = "CDESolver" /\ pc = "apply" /\ nops = 0
    /\ height = 2 /\ width = 4 /\ action.cell = <<1, 2>>

\* C27: in a game driven by CSPSolver, after every return of click every
\* live constraint has a remaining mine count of at least 0 and at most the
\* size of its set of unknown neighbours.
C27_ConstraintCountInRange ==
    solver = "CSPSolver" =>
        \A i \in 1 .. Len(constraints) :
            /\ 0 <= constraints[i].cnt
            /\ constraints[i].cnt <= Cardinality(constraints[i].unk)

C27_Witness ==
    /\ solver = "CSPSolver" /\ pc = "apply" /\ ret.qf # {}
    /\ \E i \in 1 .. Len(constraints) :
          /\ constraints[i].cnt = 1
          /\ Cardinality(constraints[i].unk) = 2

\* C28: at every probability query every candidate board the probabilities
\* are computed over has a mine at each cell flagged on the board of the
\* query, no mine at a revealed cell, and mine_count minus the number of
\* flagged cells mines among the Unknown cells.
C28_CandidatesMatchQuery ==
    LET flagged == get_cells(vboard, -3)
        unknown == get_cells(vboard, -2)
    IN  (pc = "apply" /\ ret.src = "enum") =>
            \A b \in boards :
                /\ flagged \subseteq b
                /\ b \subseteq flagged \cup unknown
                /\ Cardinality(b \cap unknown)
                       = mine_count - Cardinality(flagged)

\* C29: the chain of calls of trivialflag and trivialclick ends from every
\* constraint store: every call after the first retires at least one live
\* constraint, so the calls made are at most one more than the constraints
\* retired.
C29_TrivialRecursionBounded ==
    [][(pc \in {"trivialflag", "trivialclick"} /\ nops' = nops + 1) =>
           /\ (nops >= 1 => Len(constraints') < Len(constraints))
           /\ nops' <= 1 + Len(deletedconstraints')
           /\ Len(constraints') + Len(deletedconstraints')
                  = Len(constraints) + Len(deletedconstraints)]_vars

C29_Witness ==
    /\ pc = "return" /\ nops = 3
    /\ Len(to_flag) = 2 /\ Len(to_click) = 1

\* C30: when trivialflag or trivialclick returns, no live constraint has a
\* remaining count of 0 and none has as many unknown neighbours as its
\* remaining count.
C30_NoTrivialLeft ==
    LET Settled(cons) ==
            \A i \in 1 .. Len(cons) :
                /\ cons[i].cnt # 0
                /\ Cardinality(cons[i].unk) # cons[i].cnt
    IN  /\ pc = "return" => Settled(constraints)
        /\ pc = "trivialflag" =>
               Settled(trivialflag(Store, height, width).cons)
        /\ pc = "trivialclick" =>
               Settled(trivialclick(Store, height, width).cons)

C30_Witness ==
    /\ pc = "return" /\ nops = 2
    /\ Len(constraints) = 1 /\ Len(deletedconstraints) = 2

\* C33: the keys of the live constraints and the retired cells are disjoint,
\* no cell is the key of two live constraints and none is retired twice: a
\* retired source is not created again, also while it shows a number.
C33_SourceAtMostOnce ==
    LET live == Keys(constraints)
        del  == deletedconstraints
    IN  /\ Range(live) \cap Range(del) = {}
        /\ \A i, j \in 1 .. Len(live) : live[i] = live[j] => i = j
        /\ \A i, j \in 1 .. Len(del) : del[i] = del[j] => i = j

C33_Witness ==
    /\ solver = "CSPSolver" /\ pc = "apply" /\ ret.src = "csp"
    /\ flags # {} /\ Len(constraints) > 0
    /\ \E k \in Range(deletedconstraints) :
          vboard[k] > 0 /\ flags \cap NeighborSet(k, height, width) # {}

\* C35: when CSPDeductionSolver.click has returned, its random flag is True
\* if and only if the cell returned is the CSP stage's random choice.
C35_FallbackSignalPropagated ==
    (solver = "CSPDeductionSolver" /\ pc = "apply")
        => (s_random <=> ret.src = "random")

\* C36: in a game driven by CSPEnumerationSolver no probability is computed
\* over zero candidate boards: whenever the enumeration engine has chosen
\* the click, the mine layout of the game is among the surviving candidates.
C36_TrueLayoutSurvives ==
    solver = "CSPEnumerationSolver" =>
        /\ error # "ZeroDivisionError"
        /\ (pc = "apply" /\ ret.src = "enum") =>
               (mines \in boards /\ get_cells(vboard, -2) # {})

C36_Witness ==
    /\ solver = "CSPEnumerationSolver" /\ pc = "apply" /\ ret.src = "enum"
    /\ flags # {} /\ mines \in boards /\ Cardinality(boards) > 1

\* C32: in every call of trivialflag or trivialclick, a live constraint that
\* stays live loses from its unknown set exactly the cells the call queued,
\* its remaining count drops by one for each of its cells queued for
\* flagging and by nothing for a cell queued for clicking, and after the
\* call no queued cell is in the unknown set of a live constraint.
C32_QueuedCellsLeaveStore ==
    [][nops' = nops + 1 =>
          LET Qf == QueueCells(to_flag') \ QueueCells(to_flag)
              Qc == QueueCells(to_click') \ QueueCells(to_click)
          IN  /\ pc = "trivialflag" => Qc = {}
              /\ pc = "trivialclick" => Qf = {}
              /\ \A i \in 1 .. Len(constraints') :
                    LET old == Lookup(constraints, constraints'[i].key)
                    IN  /\ constraints'[i].unk = old.unk \ (Qf \cup Qc)
                        /\ constraints'[i].cnt
                               = old.cnt - Cardinality(old.unk \cap Qf)
                        /\ constraints'[i].unk
                               \cap (QueueCells(to_flag')
                                         \cup QueueCells(to_click')) = {}]_vars

C32_Witness ==
    /\ pc = "trivialflag" /\ nops = 2
    /\ Len(to_flag) = 1 /\ Len(to_click) = 1 /\ Len(constraints) = 1
    /\ constraints[1].cnt = 1 /\ Cardinality(constraints[1].unk) = 1
    /\ \E c \in QueueCells(to_click) :
          c \in NeighborSet(constraints[1].key, height, width)

\* No two live constraints have equal remaining counts, different sets of
\* unknown neighbours and one set within the other
NoReduciblePair(cons) ==
    \A i, j \in 1 .. Len(cons) :
        (i # j /\ cons[i].cnt = cons[j].cnt /\ cons[i].unk # cons[j].unk)
            => ~(cons[i].unk \subseteq cons[j].unk)

\* The cells listed by the live constraints, counted once per constraint
RECURSIVE TotalUnknown(_)
TotalUnknown(cons) ==
    IF Len(cons) = 0 THEN 0
    ELSE Cardinality(Head(cons).unk) + TotalUnknown(Tail(cons))

\* C31: constraintsreduction returns from every constraint store, after at
\* most one call of itself more than the store lists unknown cells; on
\* return no pair of live constraints can be reduced and no live constraint
\* is trivially resolvable.
C31_ReductionFixedPoint ==
    [][pc = "constraintsreduction" =>
          /\ pc' = "return"
          /\ nops' - nops >= 1
          /\ nops' - nops <= 1 + TotalUnknown(constraints)
          /\ NoReduciblePair(constraints')
          /\ \A i \in 1 .. Len(constraints') :
                /\ constraints'[i].cnt # 0
                /\ Cardinality(constraints'[i].unk)
                       # constraints'[i].cnt]_vars

C31_Witness ==
    /\ pc = "return" /\ nops >= 3
    /\ to_click # << >> /\ Len(constraints) >= 1

\* C34: pruneunknownneighs takes the newly revealed cells, and only those,
\* out of the unknown set of every live constraint; it keeps the live
\* constraints, their order and their remaining counts, the retired list
\* and both queues.
C34_PruneFrame ==
    [][pc = "pruneunknownneighs" =>
          /\ Keys(constraints') = Keys(constraints)
          /\ \A i \in 1 .. Len(constraints) :
                /\ constraints'[i].unk = constraints[i].unk \ newfreecells
                /\ constraints'[i].cnt = constraints[i].cnt
          /\ UNCHANGED <<deletedconstraints, to_click, to_flag,
                         newfreecells>>]_vars

C34_Witness ==
    /\ pc = "constraintsreduction" /\ nops = 1
    /\ Cardinality(newfreecells) = 2
    /\ \E i \in 1 .. Len(constraints) :
          /\ newfreecells \subseteq
                 NeighborSet(constraints[i].key, height, width)
          /\ constraints[i].unk \cap newfreecells = {}
          /\ constraints[i].unk # {}

=============================================================================
